---- MODULE Spec2Model ----
(***************************************************************************)
(* ECDSA signing (RFC 6979 nonce search), verification and public-key      *)
(* recovery of leedexjs ecc/src/ecdsa.js, modelled call by call.  The      *)
(* curve, big-integer and hash collaborators are modelled by what the      *)
(* libraries compute (ecurve point arithmetic, bigi, 32-byte digests), on  *)
(* small prime-order curves so that every case of the code is reachable.   *)
(***************************************************************************)
EXTENDS Integers, Sequences, FiniteSets, TLC

(***************************************************************************)
(* Bounds of the model.                                                    *)
(***************************************************************************)
\* digests are 32-byte buffers whose integer value is at most MaxE
MaxE == 14
\* the nonce argument ranges over 0 (omitted) .. MaxNonce
MaxNonce == 2
\* the model hash returns 32-byte buffers whose integer value is below HashRange
HashRange == 23
\* candidates drawn by one nonce search
MaxIter == 14

\* the digest length the sanity check of deterministicGenerateK demands
HashLen == 32
\* value of the captured variables r and s of sign before any assignment
Undef == -1

(***************************************************************************)
(* bigi: big-integer arithmetic.                                           *)
(***************************************************************************)
RECURSIVE pow2(_)
pow2(i) == IF i = 0 THEN 1 ELSE 2 * pow2(i - 1)

RECURSIVE bitLength(_)
bitLength(k) == IF k = 0 THEN 0 ELSE 1 + bitLength(k \div 2)

testBit(k, i) == (k \div pow2(i)) % 2 = 1

\* BigInteger.modInverse: the inverse of a modulo m, ZERO when there is none
modInverse(a, m) ==
    LET inverses == { x \in 1..(m - 1) : (a * x) % m = 1 }
    IN  IF inverses = {} THEN 0 ELSE CHOOSE x \in inverses : TRUE

RECURSIVE modPow(_, _, _)
modPow(a, ex, m) == IF ex = 0 THEN 1 % m ELSE (a * modPow(a, ex - 1, m)) % m

\* BigInteger.fromBuffer: the buffer as an unsigned big-endian integer
RECURSIVE pow256(_)
pow256(j) == IF j = 0 THEN 1 ELSE 256 * pow256(j - 1)

\* the integer of bytes[lo..hi], big-endian, computed by halves
RECURSIVE fromBytes(_, _, _)
fromBytes(buf, lo, hi) ==
    IF lo > hi THEN 0
    ELSE IF lo = hi THEN buf[lo]
    ELSE LET mid   == (lo + hi) \div 2
             left  == fromBytes(buf, lo, mid)
             right == fromBytes(buf, mid + 1, hi)
         IN  IF left = 0 THEN right ELSE left * pow256(hi - mid) + right

fromBuffer(buf) == fromBytes(buf, 1, Len(buf))

\* BigInteger.toBuffer(size): big-endian, left-padded with zero bytes
RECURSIVE shiftBytes(_, _)
shiftBytes(x, j) == IF j = 0 \/ x = 0 THEN x ELSE shiftBytes(x \div 256, j - 1)

toBuffer(x, size) == <<>> \o [i \in 1..size |-> shiftBytes(x, size - i) % 256]

\* Buffer.alloc(size): size zero bytes; Buffer.alloc(size).fill(byte)
alloc(size) == <<>> \o [i \in 1..size |-> 0]
filled(size, byte) == <<>> \o [i \in 1..size |-> byte]

(***************************************************************************)
(* hash: SHA-256 and HMAC-SHA-256, byte sequences to 32-byte digests.      *)
(***************************************************************************)
\* Absorbing a byte c takes the state x to (5x + c + 1) mod HashRange.  The
\* map x -> a*x + b that absorbing bytes[lo..hi] in order amounts to, computed
\* by halves.
RECURSIVE absorb(_, _, _)
absorb(bytes, lo, hi) ==
    IF lo > hi THEN [a |-> 1 % HashRange, b |-> 0]
    ELSE IF lo = hi THEN [a |-> 5 % HashRange, b |-> (bytes[lo] + 1) % HashRange]
    ELSE LET mid   == (lo + hi) \div 2
             left  == absorb(bytes, lo, mid)
             right == absorb(bytes, mid + 1, hi)
         IN  [a |-> (right.a * left.a) % HashRange,
              b |-> (right.a * left.b + right.b) % HashRange]

mix(seed, bytes) ==
    LET m == absorb(bytes, 1, Len(bytes))
    IN  (m.a * seed + m.b) % HashRange

sha256(data) == toBuffer(mix(2, data), HashLen)

HmacSHA256(data, secret) == toBuffer(mix(1, secret \o data), HashLen)

(***************************************************************************)
(* ecurve: curves y^2 = x^3 + ax + b over F_p, base point G of prime       *)
(* order n, and the point arithmetic of ecurve's Point.                     *)
(***************************************************************************)
Infinity == [inf |-> TRUE, x |-> 0, y |-> 0]

Affine(x, y) == [inf |-> FALSE, x |-> x, y |-> y]

\* y^2 = x^3 + 18x + 8 over F_19: n < p as on secp256k1, and x = 13 = n and
\* x = 15 > n are abscissas of points; y^2 = x^3 + 3 over F_7: n > p
Curves ==
    { [p |-> 19, a |-> 18, b |-> 8, G |-> Affine(4, 7), n |-> 13],
      [p |-> 7,  a |-> 0,  b |-> 3, G |-> Affine(1, 2), n |-> 13] }

isInfinity(Q) == Q.inf

\* the third point of the line of slope l through P and a point of abscissa qx
chord(p, P, qx, l) ==
    LET x3 == (l * l - P.x - qx) % p
    IN  Affine(x3, (l * (P.x - x3) - P.y) % p)

pointTwice(curve, P) ==
    IF isInfinity(P) THEN P
    ELSE IF P.y = 0 THEN Infinity
    ELSE chord(curve.p, P, P.x,
               ((3 * P.x * P.x + curve.a) * modInverse((2 * P.y) % curve.p, curve.p)) % curve.p)

pointAdd(curve, P, Q) ==
    IF isInfinity(P) THEN Q
    ELSE IF isInfinity(Q) THEN P
    ELSE IF (Q.x - P.x) % curve.p = 0
         THEN IF (Q.y - P.y) % curve.p = 0 THEN pointTwice(curve, P) ELSE Infinity
         ELSE chord(curve.p, P, Q.x,
                    ((Q.y - P.y) * modInverse((Q.x - P.x) % curve.p, curve.p)) % curve.p)

pointNegate(curve, P) == Affine(P.x, curve.p - P.y)

\* R = R.add(P) under a condition
addIf(curve, R, cond, P) == IF cond THEN pointAdd(curve, R, P) ELSE R

RECURSIVE multiplyLoop(_, _, _, _, _, _)
multiplyLoop(curve, P, e, h, i, R) ==
    IF i <= 0 THEN R
    ELSE multiplyLoop(curve, P, e, h, i - 1,
                      addIf(curve, pointTwice(curve, R), testBit(h, i) # testBit(e, i),
                            IF testBit(h, i) THEN P ELSE pointNegate(curve, P)))

\* Point.multiply(k), k >= 0
pointMultiply(curve, P, k) ==
    IF isInfinity(P) THEN P
    ELSE IF k = 0 THEN Infinity
    ELSE multiplyLoop(curve, P, k, 3 * k, bitLength(3 * k) - 2, P)

RECURSIVE multiplyTwoLoop(_, _, _, _, _, _, _, _)
multiplyTwoLoop(curve, P, j, X, k, both, i, R) ==
    IF i < 0 THEN R
    ELSE multiplyTwoLoop(curve, P, j, X, k, both, i - 1,
                         addIf(curve, pointTwice(curve, R), testBit(j, i) \/ testBit(k, i),
                               IF testBit(j, i)
                               THEN (IF testBit(k, i) THEN both ELSE P)
                               ELSE X))

max(a, b) == IF a >= b THEN a ELSE b

\* P.multiplyTwo(j, X, k) = j*P + k*X
pointMultiplyTwo(curve, P, j, X, k) ==
    multiplyTwoLoop(curve, P, j, X, k, pointAdd(curve, P, X),
                    max(bitLength(j), bitLength(k)) - 1, Infinity)

\* Curve.pointFromX(isOdd, x): no check that x is the abscissa of a point
pointFromX(curve, isOdd, x) ==
    LET p     == curve.p
        alpha == (x * x * x + curve.a * x + curve.b) % p
        beta  == modPow(alpha, (p + 1) \div 4, p)
        y     == IF (beta % 2 = 0) # (isOdd = 0) THEN p - beta ELSE beta
    IN  Affine(x, y)

isOnCurve(curve, Q) ==
    IF isInfinity(Q) THEN TRUE
    ELSE LET p == curve.p IN
         /\ Q.x >= 0 /\ Q.x < p
         /\ Q.y >= 0 /\ Q.y < p
         /\ (Q.y * Q.y) % p = (Q.x * Q.x * Q.x + curve.a * Q.x + curve.b) % p

\* Curve.validate(Q): the message of the assertion that fails, "none" if none
validate(curve, Q) ==
    IF isInfinity(Q) THEN "Point is at infinity"
    ELSE IF ~isOnCurve(curve, Q) THEN "Point is not on the curve"
    ELSE IF ~isInfinity(pointMultiply(curve, Q, curve.n)) THEN "Point is not a scalar multiple of G"
    ELSE "none"

pointEquals(curve, P, Q) ==
    IF isInfinity(P) THEN isInfinity(Q)
    ELSE IF isInfinity(Q) THEN FALSE
    ELSE /\ (Q.y - P.y) % curve.p = 0
         /\ (Q.x - P.x) % curve.p = 0

(***************************************************************************)
(* ecdsa.js: the pure parts of sign, verify and recovery.                  *)
(***************************************************************************)
\* the inputs the model draws
Scalars(curve) == 1..(curve.n - 1)

Digests == { toBuffer(x, HashLen) : x \in 0..MaxE }

BadDigests == { toBuffer(x, len) : x \in 0..1, len \in {HashLen - 1, HashLen + 1} }

Nonces == 0..MaxNonce

\* r and s as a caller may hand them in: in range, on and beyond both ends
FreeScalars(curve) == (0 - 1)..(curve.n + 1)

FreeEs == {0, 1, MaxE}

FreePoints(curve) == { curve.G, pointMultiply(curve, curve.G, 5) }

RecoveryIds == (0 - 1)..4

\* sign, line 65: e is the integer of the digest sign was given
signE(hash) == fromBuffer(hash)

\* deterministicGenerateK, lines 14-16: the digest the nonce is derived from
nonceHash(hash, nonce) ==
    IF nonce # 0 THEN sha256(hash \o alloc(nonce)) ELSE hash

\* slip: T = n passes the interval test
inInterval_upTo(T, n) == ~(T <= 0 \/ T > n)

\* slip: s is computed from r as the call found it, not from the r it assigns
checkSig_staleR(curve, e, dd, kk, rr, ss) ==
    LET n  == curve.n
        Q  == pointMultiply(curve, curve.G, kk)
        r1 == Q.x % n
        s1 == (modInverse(kk, n) * (e + dd * rr)) % n
    IN  IF isInfinity(Q) THEN [ok |-> FALSE, r |-> rr, s |-> ss]
        ELSE IF r1 = 0 THEN [ok |-> FALSE, r |-> r1, s |-> ss]
        ELSE IF s1 = 0 THEN [ok |-> FALSE, r |-> r1, s |-> s1]
        ELSE [ok |-> TRUE, r |-> r1, s |-> s1]

\* slip: the high s is reduced by n/2 instead of being negated modulo n
lowS_shift(n, ss) == IF ss > n \div 2 THEN ss - n \div 2 ELSE ss

\* slip: the comparison is the wrong way round
lowS_flipped(n, ss) == IF ss < n \div 2 THEN n - ss ELSE ss

\* slip: x = n passes the range check
inRange_upTo(x, n) == ~(x <= 0 \/ x > n)

\* slip: the mask is one bit too wide
twoBits_wide(i) == i % 8 = i

\* deterministicGenerateK, lines 31-45: Steps D to H2b
stepDtoH(kv, x, hash) ==
    LET kD == HmacSHA256(kv.v \o <<0>> \o x \o hash, kv.k)
        vE == HmacSHA256(kv.v, kD)
        kF == HmacSHA256(vE \o <<1>> \o x \o hash, kD)
        vG == HmacSHA256(vE, kF)
        vH == HmacSHA256(vG, kF)
    IN  [k |-> kF, v |-> vH]

\* deterministicGenerateK, line 50: T is within [1, n - 1]
inInterval(T, n) == ~(T <= 0 \/ T >= n)

\* deterministicGenerateK, lines 51-56: the body of the retry loop
rekey(kv) ==
    LET k1 == HmacSHA256(kv.v \o <<0>>, kv.k)
        v1 == HmacSHA256(kv.v, k1)
        v2 == HmacSHA256(v1, k1)
    IN  [k |-> k1, v |-> v2]

\* sign, lines 75-91: the acceptance closure; rr and ss are the captured
\* variables r and s as the call finds them, the result holds them as it
\* leaves them
checkSig(curve, e, dd, kk, rr, ss) ==
    LET n  == curve.n
        Q  == pointMultiply(curve, curve.G, kk)
        r1 == Q.x % n
        s1 == (modInverse(kk, n) * (e + dd * r1)) % n
    IN  IF isInfinity(Q) THEN [ok |-> FALSE, r |-> rr, s |-> ss]
        ELSE IF r1 = 0 THEN [ok |-> FALSE, r |-> r1, s |-> ss]
        ELSE IF s1 = 0 THEN [ok |-> FALSE, r |-> r1, s |-> s1]
        ELSE [ok |-> TRUE, r |-> r1, s |-> s1]

\* sign, lines 95-100: low-S normalisation
lowS(n, ss) == IF ss > n \div 2 THEN n - ss ELSE ss

\* verifyRaw, lines 113-114: x is an integer of the interval [1, n - 1]
inRange(x, n) == ~(x <= 0 \/ x >= n)

\* verifyRaw: the value returned and the collaborator calls made, in order
verifyRaw(curve, e, signature, Q) ==
    LET n  == curve.n
        rr == signature.r
        ss == signature.s
        c  == modInverse(ss, n)
        u1 == (e * c) % n
        u2 == (rr * c) % n
        R  == pointMultiplyTwo(curve, curve.G, u1, Q, u2)
    IN  IF ~inRange(rr, n) THEN [ret |-> FALSE, ops |-> <<>>]
        ELSE IF ~inRange(ss, n) THEN [ret |-> FALSE, ops |-> <<>>]
        ELSE IF isInfinity(R) THEN [ret |-> FALSE, ops |-> <<"modInverse", "multiplyTwo">>]
        ELSE [ret |-> (R.x % curve.p) % n = rr, ops |-> <<"modInverse", "multiplyTwo">>]

verify(curve, hash, signature, Q) == verifyRaw(curve, fromBuffer(hash), signature, Q)

\* recoverPubKey, line 156: i & 3 === i
twoBits(i) == i % 4 = i

\* recoverPubKey: the error thrown ("none" when it returns), the point
\* returned, and the collaborator calls made, in order
recoverPubKey(curve, e, signature, i) ==
    LET n    == curve.n
        rr   == signature.r
        ss   == signature.s
        isYOdd      == i % 2
        isSecondKey == i \div 2
        x    == IF isSecondKey # 0 THEN rr + n ELSE rr
        R    == pointFromX(curve, isYOdd, x)
        nR   == pointMultiply(curve, R, n)
        eNeg == (0 - e) % n
        rInv == modInverse(rr, n)
        Q    == pointMultiply(curve, pointMultiplyTwo(curve, R, ss, curve.G, eNeg), rInv)
        val  == validate(curve, Q)
    IN  IF ~twoBits(i)
        THEN [threw |-> "Recovery param is more than two bits", Q |-> Infinity, ops |-> <<>>]
        ELSE IF ~(rr > 0 /\ rr < n)
        THEN [threw |-> "Invalid r value", Q |-> Infinity, ops |-> <<>>]
        ELSE IF ~(ss > 0 /\ ss < n)
        THEN [threw |-> "Invalid s value", Q |-> Infinity, ops |-> <<>>]
        ELSE IF ~isInfinity(nR)
        THEN [threw |-> "nR is not a valid curve point", Q |-> Infinity,
              ops |-> <<"pointFromX", "multiply">>]
        ELSE IF val # "none"
        THEN [threw |-> val, Q |-> Infinity,
              ops |-> <<"pointFromX", "multiply", "modInverse", "multiplyTwo", "multiply", "validate">>]
        ELSE [threw |-> "none", Q |-> Q,
              ops |-> <<"pointFromX", "multiply", "modInverse", "multiplyTwo", "multiply", "validate">>]

\* calcPubKeyRecoveryParam: the loop from trial i on; i of the result is the
\* loop variable when the function is left
RECURSIVE calcLoop(_, _, _, _, _)
calcLoop(curve, e, signature, Q, i) ==
    IF ~(i < 4) THEN [threw |-> "Unable to find valid recovery factor", i |-> i]
    ELSE LET rec == recoverPubKey(curve, e, signature, i)
         IN  IF rec.threw # "none" THEN [threw |-> rec.threw, i |-> i]
             ELSE IF pointEquals(curve, rec.Q, Q) THEN [threw |-> "none", i |-> i]
             ELSE calcLoop(curve, e, signature, Q, i + 1)

calcPubKeyRecoveryParam(curve, e, signature, Q) == calcLoop(curve, e, signature, Q, 0)

(***************************************************************************)
(* The calls as a state machine.  One caller issues one call at a time:    *)
(* sign runs through the retry loop of deterministicGenerateK step by      *)
(* step; verify, recoverPubKey and calcPubKeyRecoveryParam are applied to   *)
(* the signature sign returned, or to arguments of the caller's choosing.   *)
(***************************************************************************)
VARIABLES
    curve,   \* the curve parameters, fixed for a run
    pc,      \* where the caller stands
    hash,    \* sign: the digest argument
    d,       \* sign: the private key argument
    nonce,   \* sign: the nonce argument, 0 when omitted
    e,       \* sign: the local e
    r,       \* sign: the captured variable r
    s,       \* sign: the captured variable s
    kv,      \* deterministicGenerateK: the locals k and v
    T,       \* deterministicGenerateK: the local T
    cands,   \* history: the candidates the loop condition has evaluated
    sig,     \* the signature sign returned
    err,     \* the error sign threw, "none" if none
    out,     \* the outcome of the last verify / recovery call
    last     \* history: the outcome of the preceding sign call with the same arguments

vars == <<curve, pc, hash, d, nonce, e, r, s, kv, T, cands, sig, err, out, last>>

NoKV == [k |-> <<>>, v |-> <<>>]

NoSig == [r |-> Undef, s |-> Undef]

NoOut == [op |-> "none", genuine |-> FALSE, e |-> 0, sig |-> NoSig, Q |-> Infinity, i |-> 0,
          threw |-> "none", ret |-> FALSE, pt |-> Infinity, ops |-> <<>>]

NoCall == [called |-> FALSE, pc |-> "idle", sig |-> NoSig, err |-> "none", cands |-> <<>>, T |-> 0]

\* slip: k and v are taken as the call before left them
stepBC_stale ==
    IF kv.k = <<>> THEN [k |-> filled(HashLen, 0), v |-> filled(HashLen, 1)] ELSE kv

\* deterministicGenerateK, lines 22-29: Steps B and C
stepBC == [k |-> filled(HashLen, 0), v |-> filled(HashLen, 1)]

Init ==
    /\ curve \in Curves
    /\ pc = "idle"
    /\ hash = <<>>
    /\ d = 0
    /\ nonce = 0
    /\ e = 0
    /\ r = Undef
    /\ s = Undef
    /\ kv = NoKV
    /\ T = 0
    /\ cands = <<>>
    /\ sig = NoSig
    /\ err = "none"
    /\ out = NoOut
    /\ last = NoCall

\* sign, lines 65-93, and deterministicGenerateK up to the first evaluation
\* of the loop condition, lines 11-47
signCall(h, dd, nn) ==
    LET gh == nonceHash(h, nn) IN
    /\ hash' = h
    /\ d' = dd
    /\ nonce' = nn
    /\ e' = signE(h)
    /\ r' = Undef
    /\ s' = Undef
    /\ cands' = <<>>
    /\ sig' = NoSig
    /\ out' = NoOut
    /\ IF Len(gh) # HashLen
       THEN /\ pc' = "threw"
            /\ err' = "Hash must be 256 bit"
            /\ UNCHANGED <<kv, T>>
       ELSE LET kv1 == stepDtoH(stepBC, toBuffer(dd, HashLen), gh) IN
            /\ kv' = kv1
            /\ T' = fromBuffer(kv1.v)
            /\ err' = "none"
            /\ pc' = "test"

\* the caller calls sign(curve, h, dd, nn)
Sign ==
    /\ pc = "idle"
    /\ \E h \in Digests \cup BadDigests, dd \in Scalars(curve), nn \in Nonces :
           signCall(h, dd, nn)
    /\ UNCHANGED <<curve, last>>

\* deterministicGenerateK, line 50: the loop condition, which calls
\* checkSig only for a T within [1, n - 1]
LoopTest ==
    /\ pc = "test"
    /\ Len(cands) < MaxIter
    /\ LET within == inInterval(T, curve.n)
           cs     == checkSig(curve, e, d, T, r, s)
       IN  /\ r' = IF within THEN cs.r ELSE r
           /\ s' = IF within THEN cs.s ELSE s
           /\ cands' = Append(cands, [T |-> T, kv |-> kv, invoked |-> within,
                                      verdict |-> within /\ cs.ok])
           /\ pc' = IF within /\ cs.ok THEN "ret" ELSE "body"
    /\ UNCHANGED <<curve, hash, d, nonce, e, kv, T, sig, err, out, last>>

\* deterministicGenerateK, lines 51-58: the loop body
LoopBody ==
    /\ pc = "body"
    /\ kv' = rekey(kv)
    /\ T' = fromBuffer(rekey(kv).v)
    /\ pc' = "test"
    /\ UNCHANGED <<curve, hash, d, nonce, e, r, s, cands, sig, err, out, last>>

\* deterministicGenerateK, line 61, and sign, lines 95-102
SignReturn ==
    /\ pc = "ret"
    /\ sig' = [r |-> r, s |-> lowS(curve.n, s)]
    /\ pc' = "signed"
    /\ UNCHANGED <<curve, hash, d, nonce, e, r, s, kv, T, cands, err, out, last>>

\* the caller calls sign a second time with the arguments of the call before
SignAgain ==
    /\ pc \in {"signed", "threw"}
    /\ ~last.called
    /\ last' = [called |-> TRUE, pc |-> pc, sig |-> sig, err |-> err, cands |-> cands, T |-> T]
    /\ signCall(hash, d, nonce)
    /\ UNCHANGED curve

\* the caller verifies the signature it got against its own public key
VerifySigned ==
    /\ pc = "signed"
    /\ ~last.called
    /\ LET Q   == pointMultiply(curve, curve.G, d)
           res == verify(curve, hash, sig, Q)
       IN  out' = [NoOut EXCEPT !.op = "verify", !.genuine = TRUE, !.e = fromBuffer(hash),
                                !.sig = sig, !.Q = Q, !.ret = res.ret, !.ops = res.ops]
    /\ pc' = "verified"
    /\ UNCHANGED <<curve, hash, d, nonce, e, r, s, kv, T, cands, sig, err, last>>

\* the caller computes the recovery id of the signature it got, for its own
\* public key (m = d) or for the public key of another private key
CalcSigned ==
    /\ pc = "signed"
    /\ ~last.called
    /\ \E m \in Scalars(curve) :
           LET Q   == pointMultiply(curve, curve.G, m)
               res == calcPubKeyRecoveryParam(curve, fromBuffer(hash), sig, Q)
           IN  out' = [NoOut EXCEPT !.op = "calc", !.genuine = (m = d), !.e = fromBuffer(hash),
                                    !.sig = sig, !.Q = Q, !.i = res.i, !.threw = res.threw]
    /\ pc' = "calculated"
    /\ UNCHANGED <<curve, hash, d, nonce, e, r, s, kv, T, cands, sig, err, last>>

\* the caller recovers the public key with the recovery id it computed
RecoverSigned ==
    /\ pc = "calculated"
    /\ out.threw = "none"
    /\ LET res == recoverPubKey(curve, out.e, out.sig, out.i)
       IN  out' = [out EXCEPT !.op = "recover", !.threw = res.threw, !.pt = res.Q, !.ops = res.ops]
    /\ pc' = "recovered"
    /\ UNCHANGED <<curve, hash, d, nonce, e, r, s, kv, T, cands, sig, err, last>>

\* verify(curve, h, signature, Q) on arguments of the caller's choosing
Verify ==
    /\ pc = "idle"
    /\ \E x \in FreeEs, rr \in FreeScalars(curve), ss \in FreeScalars(curve), Q \in FreePoints(curve) :
           LET res == verify(curve, toBuffer(x, HashLen), [r |-> rr, s |-> ss], Q)
           IN  out' = [NoOut EXCEPT !.op = "verify", !.e = x, !.sig = [r |-> rr, s |-> ss],
                                    !.Q = Q, !.ret = res.ret, !.ops = res.ops]
    /\ pc' = "verified"
    /\ UNCHANGED <<curve, hash, d, nonce, e, r, s, kv, T, cands, sig, err, last>>

\* verifyRaw(curve, e, signature, Q) on arguments of the caller's choosing
VerifyRaw ==
    /\ pc = "idle"
    /\ \E x \in FreeEs, rr \in FreeScalars(curve), ss \in FreeScalars(curve), Q \in FreePoints(curve) :
           LET res == verifyRaw(curve, x, [r |-> rr, s |-> ss], Q)
           IN  out' = [NoOut EXCEPT !.op = "verifyRaw", !.e = x, !.sig = [r |-> rr, s |-> ss],
                                    !.Q = Q, !.ret = res.ret, !.ops = res.ops]
    /\ pc' = "verified"
    /\ UNCHANGED <<curve, hash, d, nonce, e, r, s, kv, T, cands, sig, err, last>>

\* recoverPubKey(curve, e, signature, i) on arguments of the caller's choosing
RecoverPubKey ==
    /\ pc = "idle"
    /\ \E x \in FreeEs, rr \in FreeScalars(curve), ss \in FreeScalars(curve), i \in RecoveryIds :
           LET res == recoverPubKey(curve, x, [r |-> rr, s |-> ss], i)
           IN  out' = [NoOut EXCEPT !.op = "recover", !.e = x, !.sig = [r |-> rr, s |-> ss],
                                    !.i = i, !.threw = res.threw, !.pt = res.Q, !.ops = res.ops]
    /\ pc' = "recovered"
    /\ UNCHANGED <<curve, hash, d, nonce, e, r, s, kv, T, cands, sig, err, last>>

\* the call is over and its locals are gone
Reset ==
    /\ pc \in {"signed", "threw", "verified", "calculated", "recovered"}
    /\ pc' = "idle"
    /\ hash' = <<>>
    /\ d' = 0
    /\ nonce' = 0
    /\ e' = 0
    /\ r' = Undef
    /\ s' = Undef
    /\ kv' = NoKV
    /\ T' = 0
    /\ cands' = <<>>
    /\ sig' = NoSig
    /\ err' = "none"
    /\ out' = NoOut
    /\ last' = NoCall
    /\ UNCHANGED curve

Next ==
    \/ Sign
    \/ LoopTest
    \/ LoopBody
    \/ SignReturn
    \/ SignAgain
    \/ VerifySigned
    \/ CalcSigned
    \/ RecoverSigned
    \/ Verify
    \/ VerifyRaw
    \/ RecoverPubKey
    \/ Reset

Spec == Init /\ [][Next]_vars

(***************************************************************************)
(* The properties.                                                         *)
(***************************************************************************)
Normalized == sig.s # s

\* C1: a signature made by sign(curve, h, d) without a nonce argument, for a
\* 32-byte digest h, verifies under d*G, also when sign replaced s by n - s.
C1_RoundTrip ==
    (pc = "verified" /\ out.op = "verify" /\ out.genuine /\ nonce = 0 /\ Len(hash) = HashLen)
        => out.ret = TRUE

C1_Witness ==
    /\ pc = "verified" /\ out.op = "verify" /\ out.genuine /\ nonce = 0 /\ Len(hash) = HashLen
    /\ Normalized
    /\ out.ret = TRUE

\* C2: every signature sign returns has 1 <= s <= floor(n/2) and
\* 1 <= r <= n - 1; s was replaced by n - s exactly when it exceeded
\* floor(n/2), and r is the captured r.
C2_Canonical ==
    pc = "signed" =>
        /\ sig.s >= 1 /\ sig.s <= curve.n \div 2
        /\ sig.r >= 1 /\ sig.r <= curve.n - 1
        /\ Normalized <=> s > curve.n \div 2
        /\ Normalized => sig.s = curve.n - s
        /\ sig.r = r

C2_Witness ==
    pc = "signed" /\ nonce # 0 /\ s > curve.n \div 2 /\ sig.s = curve.n - s

\* C3 (as claimed): for a signature sign made with d and a 32-byte digest,
\* calcPubKeyRecoveryParam with Q = d*G raises no error and returns an id in
\* 0..3, and recoverPubKey with that id returns Q.
C3_Claim ==
    /\ (pc = "calculated" /\ out.genuine /\ nonce = 0 /\ Len(hash) = HashLen)
           => (out.threw = "none" /\ out.i \in 0..3)
    /\ (pc = "recovered" /\ out.genuine /\ nonce = 0 /\ Len(hash) = HashLen)
           => (out.threw = "none" /\ pointEquals(curve, out.pt, out.Q))

\* no recovery id makes recoverPubKey return Q
NoneReproduces(e0, sig0, Q) ==
    \A i \in 0..3 :
        LET rec == recoverPubKey(curve, e0, sig0, i)
        IN  rec.threw # "none" \/ ~pointEquals(curve, rec.Q, Q)

\* C4 (as claimed): when no recovery id reproduces Q, calcPubKeyRecoveryParam
\* evaluates all four trials and fails with its own error.
C4_Claim ==
    (pc = "calculated" /\ NoneReproduces(out.e, out.sig, out.Q))
        => (out.threw = "Unable to find valid recovery factor" /\ out.i = 4)

\* C5 (as claimed): a digest that is not 32 bytes long makes sign throw the
\* sanity-check error, for every nonce argument.
C5_Claim ==
    (hash \in BadDigests /\ pc # "idle")
        => (pc = "threw" /\ err = "Hash must be 256 bit")

\* C6: verify and verifyRaw return false, and call neither modInverse nor
\* multiplyTwo, when r or s is not in [1, n - 1].
C6_RangeReject ==
    (/\ pc = "verified"
     /\ out.op \in {"verify", "verifyRaw"}
     /\ \/ out.sig.r <= 0 \/ out.sig.r >= curve.n
        \/ out.sig.s <= 0 \/ out.sig.s >= curve.n)
        => (out.ret = FALSE /\ out.ops = <<>> /\ out.threw = "none")

C6_Witness ==
    /\ pc = "verified" /\ out.op = "verifyRaw"
    /\ out.sig.r = curve.n /\ out.sig.s \in 1..(curve.n - 1)
    /\ out.ret = FALSE

\* candidate i + 1 was drawn after the re-key step on the K and V of candidate i
Rekeyed(i) ==
    LET k0 == cands[i].kv.k
        v0 == cands[i].kv.v
        k1 == HmacSHA256(v0 \o <<0>>, k0)
        v1 == HmacSHA256(HmacSHA256(v0, k1), k1)
    IN  /\ cands[i + 1].kv = [k |-> k1, v |-> v1]
        /\ cands[i + 1].T = fromBuffer(v1)

\* C7: the k deterministicGenerateK returns is in [1, n - 1] and is the last
\* candidate, the one the predicate accepted; a candidate outside [1, n - 1]
\* is skipped without the predicate being called; every candidate before the
\* last was rejected and followed by the re-key step.
C7_NonceSearch ==
    /\ \A i \in 1..Len(cands) :
           /\ (cands[i].T <= 0 \/ cands[i].T >= curve.n) => ~cands[i].invoked
           /\ cands[i].verdict => (cands[i].invoked /\ i = Len(cands))
    /\ \A i \in 1..(Len(cands) - 1) : Rekeyed(i)
    /\ pc \in {"ret", "signed"} =>
           /\ T >= 1 /\ T <= curve.n - 1
           /\ cands # <<>>
           /\ cands[Len(cands)].T = T
           /\ cands[Len(cands)].invoked /\ cands[Len(cands)].verdict

C7_Witness ==
    /\ pc = "signed"
    /\ \E i \in 1..Len(cands) : cands[i].T >= curve.n
    /\ \E i \in 1..Len(cands) : cands[i].T = 0
    /\ \E i \in 1..Len(cands) : cands[i].invoked /\ ~cands[i].verdict

\* C8: a second call of sign with the arguments of the first ends as the
\* first did: the same signature or error, after the same candidates.
C8_Determinism ==
    last.called =>
        /\ Len(cands) <= Len(last.cands)
        /\ cands = SubSeq(last.cands, 1, Len(cands))
        /\ pc \in {"signed", "threw"} =>
               /\ pc = last.pc
               /\ sig = last.sig
               /\ err = last.err
               /\ T = last.T
               /\ cands = last.cands

C8_Witness ==
    last.called /\ pc = "signed" /\ nonce = 0 /\ Len(cands) > 1 /\ sig = last.sig

\* C9: recoverPubKey throws, before it reconstructs R, for a recovery id
\* outside [0, 3] and for r or s outside [1, n - 1]; it throws as well when
\* n*R is not the point at infinity.
C9_RecoverValidation ==
    (pc = "recovered" /\ out.op = "recover") =>
        LET n   == curve.n
            bad == \/ out.i \notin 0..3
                   \/ out.sig.r < 1 \/ out.sig.r > n - 1
                   \/ out.sig.s < 1 \/ out.sig.s > n - 1
            x   == IF out.i \div 2 # 0 THEN out.sig.r + n ELSE out.sig.r
            R   == pointFromX(curve, out.i % 2, x)
        IN  /\ bad => (out.threw # "none" /\ out.ops = <<>>)
            /\ (~bad /\ ~isInfinity(pointMultiply(curve, R, n))) => out.threw # "none"
            /\ out.threw = "none" => ~isInfinity(out.pt)

C9_Witness ==
    /\ pc = "recovered" /\ out.op = "recover" /\ ~out.genuine
    /\ out.i = 4 /\ out.sig.r \in 1..(curve.n - 1) /\ out.sig.s \in 1..(curve.n - 1)
    /\ out.threw # "none" /\ out.ops = <<>>

\* C10: the r and s sign returns come from the candidate k the search
\* accepted, with e the integer of the digest sign was given, whatever the
\* nonce argument; so the signature verifies against that digest and d*G.
C10_FinalCandidate ==
    /\ (pc = "signed" \/ (pc = "verified" /\ out.genuine)) =>
           LET n  == curve.n
               r0 == pointMultiply(curve, curve.G, T).x % n
               s0 == (modInverse(T, n) * (fromBuffer(hash) + d * r0)) % n
           IN  /\ sig.r = r0
               /\ sig.s \in {s0, n - s0}
    /\ (pc = "verified" /\ out.genuine) => out.ret = TRUE

C10_Witness ==
    /\ pc = "verified" /\ out.genuine /\ out.ret = TRUE
    /\ nonce # 0
    /\ \E i \in 1..Len(cands) : cands[i].invoked /\ ~cands[i].verdict

====
